---- MODULE Spec2Model ----
(***************************************************************************)
(* BalancedBSTSet.py: a weight-balanced (scapegoat style) binary search    *)
(* tree with per-node subtree counters, its ordered iterator and the       *)
(* indexed access built on it.                                             *)
(*                                                                         *)
(* The heap is a function from node identities to node objects.  None is   *)
(* 0.  A node object that is no longer referenced is returned to the heap  *)
(* as a blank node.  The identity a fresh object gets is arbitrary; the    *)
(* model gives a new node the identity equal to its key when that identity *)
(* is free and the smallest free identity otherwise.                       *)
(***************************************************************************)
EXTENDS Integers, Sequences, FiniteSets, TLC

\* ---------------------------------------------------------------- bounds
MaxKey == 4
MaxKeyBal == 10
MaxElem == 4
MaxAsc == 32
MaxKeyReb == 6
MaxKeyMix == 5

\* ------------------------------------------------------------- constants
DefaultTop == 2
DefaultBottom == 3

None == 0
Keys == 1..MaxKey
KeysBal == 1..MaxKeyBal
KeysAsc == 1..MaxAsc
KeysReb == 1..MaxKeyReb
KeysMix == 1..MaxKeyMix

VARIABLES
    self_balancing, \* BalancedBSTSet.self_balancing
    root,           \* BalancedBSTSet.__root
    size,           \* BalancedBSTSet.__size
    nodes,          \* the Node objects: data, left, right, parent, counter
    itLive,         \* a BSTIterator object exists
    current,        \* BSTIterator.__current
    pending,        \* BSTIterator.__pending
    lastOp,         \* name of the last operation called
    arg,            \* its argument (key or index), 0 if none
    result,         \* how it ended: "True", "False", "value", "None" or the exception raised
    value,          \* the value returned when result = "value"
    rebuilt,        \* the last operation called rebalance on a node
    startKeys,      \* keys in the tree when the live iterator was created
    yielded,        \* keys returned by the live iterator so far
    removed,        \* keys passed to the live iterator's remove()
    merge           \* the running set_intersection, set_union or set_diff call

treeVars == <<self_balancing, root, size, nodes>>
itVars == <<itLive, current, pending, startKeys, yielded, removed>>
opVars == <<lastOp, arg, result, value, rebuilt>>
vars == <<self_balancing, root, size, nodes, itLive, current, pending,
          lastOp, arg, result, value, rebuilt, startKeys, yielded, removed, merge>>

\* no set function is running
NoMerge == [fn |-> "none"]

\* ---------------------------------------------------------------- nodes
\* Node.__init__ : counter = 0, then the base constructor stores key and
\* parent and leaves both children absent.
Node(key, parent) ==
    [data |-> key, left |-> None, right |-> None, parent |-> parent, counter |-> 0]

BlankNode ==
    [data |-> None, left |-> None, right |-> None, parent |-> None, counter |-> 0]

\* identity of the object a constructor call returns
FreshId(N, key) ==
    IF key \in DOMAIN N /\ N[key].data = None THEN key
    ELSE CHOOSE i \in DOMAIN N :
            /\ N[i].data = None
            /\ \A j \in DOMAIN N : N[j].data = None => i <= j

\* three-way comparison of the node's key with key
cmp(a, b) == IF a > b THEN 1 ELSE IF a < b THEN -1 ELSE 0
compareTo(N, n, key) == cmp(N[n].data, key)

\* BalancedBSTSet(isSelfBalancing, top, bottom) with bottom = 0
top == DefaultTop
bottom == DefaultBottom

\* ------------------------------------------------------------ traversal
\* inOrder with the node visited before its left subtree
RECURSIVE inOrder_preorder(_, _)
inOrder_preorder(N, node) ==
    IF node = None THEN <<>>
    ELSE <<node>> \o inOrder_preorder(N, N[node].left)
                  \o inOrder_preorder(N, N[node].right)

\* nodes of the subtree rooted at node, in order, as object identities
RECURSIVE inOrder(_, _)
inOrder(N, node) ==
    IF node = None THEN <<>>
    ELSE inOrder(N, N[node].left) \o <<node>> \o inOrder(N, N[node].right)

\* getSmallestValue without the descent to the left
getSmallestValue_nodescent(N, n) == n

\* leftmost node of the subtree rooted at n
RECURSIVE getSmallestValue(_, _)
getSmallestValue(N, n) ==
    IF n = None THEN None
    ELSE IF N[n].left # None THEN getSmallestValue(N, N[n].left)
    ELSE n

\* climb while the node is the right child of its parent
RECURSIVE climb(_, _)
climb(N, child) ==
    LET c == N[child].parent
    IN  IF c # None /\ N[c].right = child THEN climb(N, c) ELSE c

\* in-order successor: the minimum of the right subtree when there is one,
\* otherwise the first ancestor reached from its left side
successor(N, n) ==
    IF n = None THEN None
    ELSE IF N[n].right # None THEN getSmallestValue(N, N[n].right)
    ELSE climb(N, n)

\* ------------------------------------------------------------- counters
RECURSIVE count_node(_, _)
count_node(N, cur) ==
    IF cur = None THEN N
    ELSE LET NL == count_node(N, N[cur].left)
             NR == count_node(NL, N[cur].right)
             cl == IF N[cur].left = None THEN 0 ELSE NR[N[cur].left].counter
             cr == IF N[cur].right = None THEN 0 ELSE NR[N[cur].right].counter
         IN  [NR EXCEPT ![cur].counter = cl + cr + 1]

\* the number of edges on the longest path from root down to a leaf
RECURSIVE getHeight(_, _)
getHeight(N, rt) ==
    IF rt # None
    THEN LET hl == getHeight(N, N[rt].left)
             hr == getHeight(N, N[rt].right)
         IN  1 + (IF hl >= hr THEN hl ELSE hr)
    ELSE -1

height == getHeight(nodes, root)

\* ------------------------------------------------------- balance engine
is_balanced_always(N, node) == TRUE

is_balanced(N, node) ==
    IF node = None THEN TRUE
    ELSE LET sz == N[node].counter
             l == IF N[node].left # None THEN N[N[node].left].counter ELSE 0
             r == IF N[node].right # None THEN N[N[node].right].counter ELSE 0
         IN  IF l * bottom > sz * top THEN FALSE
             ELSE IF r * bottom > sz * top THEN FALSE
             ELSE TRUE

\* outcome of n.parent when n is None
Raise == -1

\* the walk that goes on past unbalanced nodes and returns the last one
RECURSIVE find_unbalanced_topmost(_, _, _)
find_unbalanced_topmost(N, rt, n) ==
    IF n = None THEN None
    ELSE LET above == IF n = rt THEN None
                      ELSE find_unbalanced_topmost(N, rt, N[n].parent)
         IN  IF above # None THEN above
             ELSE IF is_balanced(N, n) THEN None
             ELSE n

\* the node the upward walk stops at, None, or Raise when the walk
\* dereferences None
RECURSIVE find_unbalanced(_, _, _)
find_unbalanced(N, rt, n) ==
    IF is_balanced(N, n)
    THEN IF n = rt THEN None
         ELSE IF n = None THEN Raise
         ELSE find_unbalanced(N, rt, N[n].parent)
    ELSE n

\* the midpoint rounded down
Midpoint_floor(start, end) == (2 * start + (end - start)) \div 2

\* int(math.ceil(start + (end - start) / 2.0))
Midpoint(start, end) ==
    LET twice == 2 * start + (end - start)
    IN  IF twice % 2 = 0 THEN twice \div 2 ELSE (twice \div 2) + 1

\* node_list is indexed from 0 in the source
ListAt(lst, i) == lst[i + 1]

\* the node rebuild_tree returns
rebuild_root(lst, start, end) ==
    IF start > end THEN None ELSE ListAt(lst, Midpoint(start, end))

\* the heap after rebuild_tree(nodes, start, end, parent)
RECURSIVE rebuild_tree(_, _, _, _, _)
rebuild_tree(N, lst, start, end, parent) ==
    IF start > end THEN N
    ELSE LET mid == Midpoint(start, end)
             node == ListAt(lst, mid)
             N1 == [N EXCEPT ![node].parent = parent]
             N2 == rebuild_tree(N1, lst, start, mid - 1, node)
             N3 == [N2 EXCEPT ![node].left = rebuild_root(lst, start, mid - 1)]
             N4 == rebuild_tree(N3, lst, mid + 1, end, node)
         IN  [N4 EXCEPT ![node].right = rebuild_root(lst, mid + 1, end)]

\* a tree is the heap with the root and the size fields
Tree(N, rt, sz) == [nodes |-> N, root |-> rt, size |-> sz]

\* rebalance that always splices into the parent's left slot
rebalance_leftslot(T, bstNode) ==
    IF bstNode = None THEN T
    ELSE LET N == T.nodes
             node_parent == N[bstNode].parent
             node_list == inOrder(N, bstNode)
             last == Len(node_list) - 1
             subtree_root == rebuild_root(node_list, 0, last)
             N1 == rebuild_tree(N, node_list, 0, last, N[bstNode].parent)
             rt == IF N1[subtree_root].parent = None THEN subtree_root ELSE T.root
             N2 == IF N1[subtree_root].parent = None THEN N1
                   ELSE [N1 EXCEPT ![node_parent].left = subtree_root]
         IN  Tree(count_node(N2, rt), rt, T.size)

rebalance(T, bstNode) ==
    IF bstNode = None THEN T
    ELSE LET N == T.nodes
             node_parent == N[bstNode].parent
             node_list == inOrder(N, bstNode)
             last == Len(node_list) - 1
             subtree_root == rebuild_root(node_list, 0, last)
             N1 == rebuild_tree(N, node_list, 0, last, N[bstNode].parent)
             rt == IF N1[subtree_root].parent = None THEN subtree_root ELSE T.root
             N2 == IF N1[subtree_root].parent = None THEN N1
                   ELSE IF N1[node_parent].left = bstNode
                        THEN [N1 EXCEPT ![node_parent].left = subtree_root]
                        ELSE [N1 EXCEPT ![node_parent].right = subtree_root]
         IN  Tree(count_node(N2, rt), rt, T.size)

\* ---------------------------------------------------------------- lookup
RECURSIVE findFrom(_, _, _)
findFrom(N, cur, key) ==
    IF cur = None THEN None
    ELSE LET comp == compareTo(N, cur, key)
         IN  IF comp = 0 THEN cur
             ELSE IF comp > 0 THEN findFrom(N, N[cur].left, key)
             ELSE findFrom(N, N[cur].right, key)

findEntry(T, key) == findFrom(T.nodes, T.root, key)

\* --------------------------------------------------------------- unlink
\* the node that unlinkNode(n0) takes out of the tree
unlinked(N, n0) ==
    IF N[n0].left # None /\ N[n0].right # None THEN successor(N, n0) ELSE n0

\* unlinkNode that leaves the replacement's parent link as it was
unlinkNode_noreparent(T, n0) ==
    LET N == T.nodes
        two == N[n0].left # None /\ N[n0].right # None
        s == successor(N, n0)
        N1 == IF two THEN [N EXCEPT ![n0].data = N[s].data] ELSE N
        n == IF two THEN s ELSE n0
        replacement == IF N1[n].left # None THEN N1[n].left
                       ELSE IF N1[n].right # None THEN N1[n].right
                       ELSE None
        p == N1[n].parent
        rt == IF p = None THEN replacement ELSE T.root
        N2 == IF p = None THEN N1
              ELSE IF n = N1[p].left THEN [N1 EXCEPT ![p].left = replacement]
              ELSE [N1 EXCEPT ![p].right = replacement]
    IN  Tree(N2, rt, T.size - 1)

\* unlinkNode that leaves n0's key in place in the two-children case
unlinkNode_keepkey(T, n0) ==
    LET N == T.nodes
        n == unlinked(N, n0)
        replacement == IF N[n].left # None THEN N[n].left
                       ELSE IF N[n].right # None THEN N[n].right
                       ELSE None
        p == N[n].parent
        rt == IF p = None THEN replacement ELSE T.root
        N2 == IF p = None THEN N
              ELSE IF n = N[p].left THEN [N EXCEPT ![p].left = replacement]
              ELSE [N EXCEPT ![p].right = replacement]
        N3 == IF replacement # None THEN [N2 EXCEPT ![replacement].parent = p] ELSE N2
    IN  Tree([N3 EXCEPT ![n] = BlankNode], rt, T.size - 1)

unlinkNode(T, n0) ==
    LET N == T.nodes
        two == N[n0].left # None /\ N[n0].right # None
        s == successor(N, n0)
        N1 == IF two THEN [N EXCEPT ![n0].data = N[s].data] ELSE N
        n == IF two THEN s ELSE n0
        replacement == IF N1[n].left # None THEN N1[n].left
                       ELSE IF N1[n].right # None THEN N1[n].right
                       ELSE None
        p == N1[n].parent
        rt == IF p = None THEN replacement ELSE T.root
        N2 == IF p = None THEN N1
              ELSE IF n = N1[p].left THEN [N1 EXCEPT ![p].left = replacement]
              ELSE [N1 EXCEPT ![p].right = replacement]
        N3 == IF replacement # None THEN [N2 EXCEPT ![replacement].parent = p] ELSE N2
    IN  \* the unlinked object n is referenced by nothing any more
        Tree([N3 EXCEPT ![n] = BlankNode], rt, T.size - 1)

\* the outcome of an operation on the tree: the tree it leaves, how the
\* call ended and whether rebalance was called on a node
Outcome(T, res, reb) == [tree |-> T, result |-> res, rebuilt |-> reb]

\* recompute the counters from the root, then, in a self-balancing tree,
\* rebalance the first unbalanced node on the way up from start
recount_and_balance(T, sb, start) ==
    LET T1 == Tree(count_node(T.nodes, T.root), T.root, T.size)
        unbalanced_node == find_unbalanced(T1.nodes, T1.root, start)
    IN  IF ~sb THEN Outcome(T1, "True", FALSE)
        ELSE IF unbalanced_node = Raise THEN Outcome(T1, "AttributeError", FALSE)
        ELSE IF unbalanced_node # None
             THEN Outcome(rebalance(T1, unbalanced_node), "True", TRUE)
        ELSE Outcome(T1, "True", FALSE)

\* ------------------------------------------------------------------ add
\* add_walk that goes right on an equal key
RECURSIVE add_walk_noequal(_, _, _)
add_walk_noequal(N, cur, key) ==
    LET comp == compareTo(N, cur, key)
    IN  IF comp > 0
        THEN IF N[cur].left # None THEN add_walk_noequal(N, N[cur].left, key) ELSE cur
        ELSE IF N[cur].right # None THEN add_walk_noequal(N, N[cur].right, key) ELSE cur

\* the node the loop of add ends at: the node holding key, or the node
\* whose empty child slot receives the new leaf
RECURSIVE add_walk(_, _, _)
add_walk(N, cur, key) ==
    LET comp == compareTo(N, cur, key)
    IN  IF comp = 0 THEN cur
        ELSE IF comp > 0
             THEN IF N[cur].left # None THEN add_walk(N, N[cur].left, key) ELSE cur
        ELSE IF N[cur].right # None THEN add_walk(N, N[cur].right, key) ELSE cur

add_outcome(T, sb, key) ==
    LET N == T.nodes
        new == FreshId(N, key)
    IN  IF T.root = None
        THEN LET N1 == [N EXCEPT ![new] = Node(key, None)]
             IN  Outcome(Tree(count_node(N1, new), new, T.size + 1), "True", FALSE)
        ELSE LET cur == add_walk(N, T.root, key)
                 comp == compareTo(N, cur, key)
                 N1 == [N EXCEPT ![new] = Node(key, cur)]
                 N2 == IF comp > 0 THEN [N1 EXCEPT ![cur].left = new]
                       ELSE [N1 EXCEPT ![cur].right = new]
             IN  IF comp = 0 THEN Outcome(T, "False", FALSE)
                 ELSE recount_and_balance(Tree(N2, T.root, T.size + 1), sb, cur)

\* --------------------------------------------------------------- remove
\* the node remove hands to find_unbalanced: the parent, read before the
\* unlink, of the node that holds the key
remove_search_start(T, n) == T.nodes[n].parent

remove_outcome(T, sb, obj) ==
    LET n == findEntry(T, obj)
    IN  IF n = None THEN Outcome(T, "False", FALSE)
        ELSE LET parent == remove_search_start(T, n)
             IN  recount_and_balance(unlinkNode(T, n), sb, parent)

\* ------------------------------------------------------------- indexing
\* nth_node that counts the advances from 1
RECURSIVE nth_node_fromone(_, _, _)
nth_node_fromone(N, cur, i) ==
    IF cur = None THEN None
    ELSE IF i <= 1 THEN cur
    ELSE nth_node_fromone(N, successor(N, cur), i - 1)

\* the node the ind-th advance of a fresh iterator returns, None when the
\* iterator ends first
RECURSIVE nth_node(_, _, _)
nth_node(N, cur, i) ==
    IF cur = None THEN None
    ELSE IF i = 0 THEN cur
    ELSE nth_node(N, successor(N, cur), i - 1)

\* ---------------------------------------------------- name resolution
\* a name with two leading underscores written inside a class body is
\* stored under the name of the innermost enclosing class
Mangled(class, name) == <<class, name>>

\* the private attributes a BalancedBSTSet object holds
TreeAttributes ==
    {Mangled("BalancedBSTSet", "root"), Mangled("BalancedBSTSet", "size"),
     Mangled("BSTSet", "root"), Mangled("BSTSet", "size")}

\* self.__tree.__root written inside class BSTIterator
IteratorSeesRoot == Mangled("BSTIterator", "root") \in TreeAttributes

\* the part of BSTIterator.remove after pending is unlinked
iterator_recount(T, sb, parent) ==
    IF ~IteratorSeesRoot THEN Outcome(T, "AttributeError", FALSE)
    ELSE LET o == recount_and_balance(T, sb, parent)
         IN  Outcome(o.tree, IF o.result = "True" THEN "None" ELSE o.result, o.rebuilt)

\* remove() without the guard on pending
no_pending_unguarded(pend) == FALSE

\* remove() that never moves the cursor back to pending
reposition_never(N, pend, cur) == cur

\* the guard of BSTIterator.remove
no_pending(pend) == pend = None

\* the cursor after remove(): pending itself when it has two children,
\* because unlinkNode copies the successor's key into it
reposition(N, pend, cur) ==
    IF N[pend].left # None /\ N[pend].right # None THEN pend ELSE cur

\* ---------------------------------------------------------- observation
Reach(N, rt) == LET lst == inOrder(N, rt) IN {lst[i] : i \in 1..Len(lst)}
KeysOf(N, rt) == {N[n].data : n \in Reach(N, rt)}
TreeKeys == KeysOf(nodes, root)
TreeNodes == Reach(nodes, root)
ThisTree == Tree(nodes, root, size)

\* ---------------------------------------------------------------- Init
\* the empty tree and no iterator; the heap has room for one node per key
EmptyTree(keys) ==
    /\ root = None
    /\ size = 0
    /\ nodes = [i \in keys |-> BlankNode]
    /\ itLive = FALSE
    /\ current = None
    /\ pending = None
    /\ lastOp = "init"
    /\ arg = 0
    /\ result = "None"
    /\ value = 0
    /\ rebuilt = FALSE
    /\ startKeys = {}
    /\ yielded = <<>>
    /\ removed = {}

Init ==
    /\ self_balancing \in BOOLEAN
    /\ EmptyTree(Keys)
    /\ merge = NoMerge

\* -------------------------------------------------------------- actions
\* The tree is changed through add, remove and rebalance only while no
\* iterator is live: an iterator is used by the single writer that holds it.
Install(o, op, a) ==
    /\ nodes' = o.tree.nodes
    /\ root' = o.tree.root
    /\ size' = o.tree.size
    /\ lastOp' = op
    /\ arg' = a
    /\ result' = o.result
    /\ value' = 0
    /\ rebuilt' = o.rebuilt
    /\ UNCHANGED <<self_balancing, merge>>

add(key) ==
    /\ ~itLive
    /\ Install(add_outcome(ThisTree, self_balancing, key), "add", key)
    /\ UNCHANGED itVars

remove(obj) ==
    /\ ~itLive
    /\ Install(remove_outcome(ThisTree, self_balancing, obj), "remove", obj)
    /\ UNCHANGED itVars

\* bst.rebalance(node) called on a node of the tree, or on the root of an
\* empty tree
rebalance_call(node) ==
    /\ ~itLive
    /\ Install(Outcome(rebalance(ThisTree, node), "None", node # None), "rebalance", node)
    /\ UNCHANGED itVars

getitem(ind) ==
    /\ ~itLive
    /\ lastOp' = "getitem"
    /\ arg' = ind
    /\ rebuilt' = FALSE
    /\ IF ind < 0 \/ ind >= size
       THEN result' = "IndexError" /\ value' = 0
       ELSE LET n == nth_node(nodes, getSmallestValue(nodes, root), ind)
            IN  IF n = None THEN result' = "None" /\ value' = 0
                ELSE result' = "value" /\ value' = nodes[n].data
    /\ UNCHANGED <<treeVars, itVars, merge>>

iterator ==
    /\ ~itLive
    /\ itLive' = TRUE
    /\ pending' = None
    /\ current' = getSmallestValue(nodes, root)
    /\ startKeys' = TreeKeys
    /\ yielded' = <<>>
    /\ removed' = {}
    /\ lastOp' = "iterator"
    /\ arg' = 0
    /\ result' = "None"
    /\ value' = 0
    /\ rebuilt' = FALSE
    /\ UNCHANGED <<treeVars, merge>>

next ==
    /\ itLive
    /\ lastOp' = "next"
    /\ arg' = 0
    /\ rebuilt' = FALSE
    /\ IF current = None
       THEN /\ result' = "StopIteration"
            /\ value' = 0
            /\ UNCHANGED <<current, pending, yielded>>
       ELSE /\ pending' = current
            /\ current' = successor(nodes, current)
            /\ result' = "value"
            /\ value' = nodes[current].data
            /\ yielded' = Append(yielded, nodes[current].data)
    /\ UNCHANGED <<treeVars, itLive, startKeys, removed, merge>>

BSTIterator_remove ==
    /\ itLive
    /\ lastOp' = "iterator.remove"
    /\ arg' = 0
    /\ value' = 0
    /\ IF no_pending(pending)
       THEN /\ result' = "IndexError"
            /\ rebuilt' = FALSE
            /\ UNCHANGED <<treeVars, current, pending, removed>>
       ELSE IF pending = None
       THEN \* self.__pending.parent with no pending node
            /\ result' = "AttributeError"
            /\ rebuilt' = FALSE
            /\ UNCHANGED <<treeVars, current, pending, removed>>
       ELSE LET parent == nodes[pending].parent
                o == iterator_recount(unlinkNode(ThisTree, pending), self_balancing, parent)
            IN  /\ current' = reposition(nodes, pending, current)
                /\ pending' = None
                /\ nodes' = o.tree.nodes
                /\ root' = o.tree.root
                /\ size' = o.tree.size
                /\ result' = o.result
                /\ rebuilt' = o.rebuilt
                /\ removed' = removed \cup {nodes[pending].data}
                /\ UNCHANGED self_balancing
    /\ UNCHANGED <<itLive, startKeys, yielded, merge>>

\* the iterator object is dropped
discard ==
    /\ itLive
    /\ itLive' = FALSE
    /\ current' = None
    /\ pending' = None
    /\ startKeys' = {}
    /\ yielded' = <<>>
    /\ removed' = {}
    /\ lastOp' = "discard"
    /\ arg' = 0
    /\ result' = "None"
    /\ value' = 0
    /\ rebuilt' = FALSE
    /\ UNCHANGED <<treeVars, merge>>

Next ==
    \/ \E key \in Keys : add(key)
    \/ \E obj \in Keys : remove(obj)
    \/ \E node \in TreeNodes \cup {None} : rebalance_call(node)
    \/ \E ind \in -1..MaxKey : getitem(ind)
    \/ iterator
    \/ next
    \/ BSTIterator_remove
    \/ discard

Spec == Init /\ [][Next]_vars

\* a self-balancing tree grown by add over the wider key range
InitBal ==
    /\ self_balancing = TRUE
    /\ EmptyTree(KeysBal)
    /\ merge = NoMerge

NextBal == \E key \in KeysBal : add(key)

SpecBal == InitBal /\ [][NextBal]_vars

\* the integers 1, 2, 3, ... added in ascending order, in either mode, with
\* indexed reads in between
InitAsc ==
    /\ self_balancing \in BOOLEAN
    /\ EmptyTree(KeysAsc)
    /\ merge = NoMerge

NextAsc ==
    \/ size < MaxAsc /\ add(size + 1)
    \/ \E ind \in 0..(size - 1) : getitem(ind)

SpecAsc == InitAsc /\ [][NextAsc]_vars

\* trees grown by add in any order, in either mode, and rebalance called on
\* any of their nodes
InitReb ==
    /\ self_balancing \in BOOLEAN
    /\ EmptyTree(KeysReb)
    /\ merge = NoMerge

NextReb ==
    \/ \E key \in KeysReb : add(key)
    \/ \E node \in TreeNodes \cup {None} : rebalance_call(node)

SpecReb == InitReb /\ [][NextReb]_vars

\* adds and removes in any order, in either mode
InitMix ==
    /\ self_balancing \in BOOLEAN
    /\ EmptyTree(KeysMix)
    /\ merge = NoMerge

NextMix ==
    \/ \E key \in KeysMix : add(key)
    \/ \E obj \in KeysMix : remove(obj)

SpecMix == InitMix /\ [][NextMix]_vars

\* ---------------------------------------------------------- properties
Counter(N, n) == IF n = None THEN 0 ELSE N[n].counter

\* counter(n) * bottom <= counter(parent(n)) * top for every node with a parent
WeightBalanced ==
    \A n \in TreeNodes :
        nodes[n].parent # None =>
            nodes[n].counter * bottom <= nodes[nodes[n].parent].counter * top

\* C1: in a self-balancing tree with the default ratio, after every
\* completed add or remove every node n with parent p satisfies
\* counter(n) * bottom <= counter(p) * top.
C1_WeightBalanceAfterAddRemove ==
    (self_balancing /\ lastOp \in {"add", "remove"} /\ result \in {"True", "False"})
        => WeightBalanced

\* C2: for every key, remove(key) ends with a boolean and no error: True
\* exactly when the key was in the tree, which then holds the previous
\* keys minus that key; False when the key is absent, the tree unchanged.
C2_RemoveReturnsBoolean ==
    [][lastOp' = "remove" =>
        IF arg' \in TreeKeys
        THEN result' = "True" /\ KeysOf(nodes', root') = TreeKeys \ {arg'}
        ELSE result' = "False" /\ nodes' = nodes /\ root' = root /\ size' = size]_vars

\* C3: add(key) returns False and changes no link, counter or size when
\* the key is stored already; otherwise it returns True, the key set
\* becomes the previous set plus key and the size grows by exactly 1.
C3_AddContract ==
    [][lastOp' = "add" =>
        IF arg' \in TreeKeys
        THEN result' = "False" /\ nodes' = nodes /\ root' = root /\ size' = size
        ELSE /\ result' = "True"
             /\ KeysOf(nodes', root') = TreeKeys \cup {arg'}
             /\ size' = size + 1]_vars

\* a duplicate add on a tree of several keys
C3_Witness ==
    /\ lastOp = "add"
    /\ result = "False"
    /\ size >= 3

\* counter(n) = 1 + counter(n.left) + counter(n.right) for every node
CounterConsistent ==
    \A n \in TreeNodes :
        nodes[n].counter =
            1 + Counter(nodes, nodes[n].left) + Counter(nodes, nodes[n].right)

\* C4: after every completed add or remove, in either mode, every node n
\* satisfies counter(n) = 1 + counter(n.left) + counter(n.right).
C4_CountersAfterAddRemove ==
    (lastOp \in {"add", "remove"} /\ result \in {"True", "False"})
        => CounterConsistent

\* the elements of a set of keys in ascending order
RECURSIVE SortedSeq(_)
SortedSeq(S) ==
    IF S = {} THEN <<>>
    ELSE LET m == CHOOSE x \in S : \A y \in S : x <= y
         IN  <<m>> \o SortedSeq(S \ {m})

\* every key of the left subtree is smaller and every key of the right
\* subtree is greater than the node's key
Ordered(N, rt) ==
    \A n \in Reach(N, rt) :
        /\ \A k \in KeysOf(N, N[n].left) : k < N[n].data
        /\ \A k \in KeysOf(N, N[n].right) : k > N[n].data

\* C5: after every completed add, remove or rebalance the tree is a binary
\* search tree without duplicates.
C5_SearchTreeOrder ==
    /\ Ordered(nodes, root)
    /\ Cardinality(TreeKeys) = Cardinality(TreeNodes)

\* an add that rebuilt a subtree of the tree
C5_Witness ==
    /\ lastOp = "add"
    /\ rebuilt
    /\ size >= 4

Errors == {"AttributeError", "IndexError", "StopIteration"}

\* C6: after every completed public operation the size equals root.counter
\* (0 for the empty tree) and the number of nodes reachable from the root.
C6_SizeIsRootCounter ==
    result \notin Errors =>
        /\ size = Counter(nodes, root)
        /\ size = Cardinality(TreeNodes)

\* C7: a full forward iteration over a tree built by inserts yields exactly
\* the stored keys in strictly ascending order, each once, and then ends.
C7_IterationAscending ==
    (itLive /\ lastOp = "next" /\ result = "StopIteration" /\ removed = {})
        => yielded = SortedSeq(TreeKeys)

C7_Witness ==
    /\ itLive
    /\ lastOp = "next"
    /\ result = "StopIteration"
    /\ removed = {}
    /\ Len(yielded) >= 4

\* C8: at(i) returns the i-th smallest stored key for 0 <= i < len() and
\* signals an out-of-range error otherwise; the tree is unchanged.
C8_IndexedAccess ==
    [][lastOp' = "getitem" =>
        /\ UNCHANGED treeVars
        /\ IF 0 <= arg' /\ arg' < Cardinality(TreeKeys)
           THEN result' = "value" /\ value' = SortedSeq(TreeKeys)[arg' + 1]
           ELSE result' = "IndexError"]_vars

C8_Witness ==
    /\ lastOp = "getitem"
    /\ result = "value"
    /\ arg >= 2
    /\ \E n \in TreeNodes : nodes[n].left # None /\ nodes[n].right # None

\* C9: the iterator's remove() with no element pending (on a fresh iterator,
\* or a second time without an advance in between) signals an
\* invalid-operation error and leaves nodes, links, counters and size
\* unchanged.
C9_RemoveWithoutPending ==
    [][(lastOp' = "iterator.remove" /\ lastOp \in {"iterator", "iterator.remove"}) =>
        /\ result' = "IndexError"
        /\ UNCHANGED treeVars]_vars

\* a second remove() right after one that unlinked a node
C9_Witness ==
    /\ lastOp = "iterator.remove"
    /\ result = "IndexError"
    /\ removed # {}

\* C10: a forward traversal with remove() called after any subset of the
\* advances yields every key the tree held at its start exactly once in
\* ascending order, and the tree ends holding the keys not removed.
C10_TraversalWithRemoval ==
    (itLive /\ lastOp = "next" /\ result = "StopIteration") =>
        /\ yielded = SortedSeq(startKeys)
        /\ TreeKeys = startKeys \ removed

C10_Witness ==
    /\ itLive
    /\ lastOp = "next"
    /\ result = "StopIteration"
    /\ Cardinality(startKeys) >= 4
    /\ Cardinality(removed) >= 2
    /\ size >= 1

\* -------------------------------------------------------- set functions
\* set_intersection, set_union and set_diff walk their two arguments with
\* lookahead cursors.  An argument is given by the ascending sequence its
\* iteration yields; a cursor is the number of elements already consumed.
\* The result is a fresh BalancedBSTSet, kept in root, size and nodes.

Elems == 1..MaxElem

Inputs == {SortedSeq(S) : S \in SUBSET Elems}

Elements(s) == {s[i] : i \in DOMAIN s}

SetFunctions == {"set_intersection", "set_union", "set_diff"}

\* what peekable(it) gives: the imported peekable class, or, when the import
\* fails, the tree's own BSTIterator
Adapters == {"peekable", "iterator"}

hasNext(s, p) == p < Len(s)

peek(s, p) == IF p < Len(s) THEN s[p + 1] ELSE None

\* BSTIterator has no isLast method
provides_isLast(adapter) == adapter = "peekable"

\* the peekable class's isLast(): the last element has been consumed
isLast(s, p) == ~hasNext(s, p)

\* the effect of one pass of a loop: the value appended to the result (None
\* for no append), the advance of each cursor, the exception that ends the
\* call ("" for none)
Step(emit, d1, d2, err) == [emit |-> emit, d1 |-> d1, d2 |-> d2, err |-> err]

intersection_step_emitsmaller(i1, i2) ==
    IF i1 < i2 THEN Step(i1, 1, 0, "")
    ELSE IF i2 < i1 THEN Step(i2, 0, 1, "")
    ELSE Step(i1, 1, 1, "")

intersection_step(i1, i2) ==
    IF i1 < i2 THEN Step(None, 1, 0, "")
    ELSE IF i2 < i1 THEN Step(None, 0, 1, "")
    ELSE Step(i1, 1, 1, "")

\* one pass of set_union's loop: i1 < i2 raises TypeError when a peek gave
\* None, and the except branch asks both cursors for isLast()
union_step(adapter, a, b, p1, p2) ==
    LET i1 == peek(a, p1)
        i2 == peek(b, p2)
    IN  IF i1 = None \/ i2 = None
        THEN IF ~provides_isLast(adapter) THEN Step(None, 0, 0, "AttributeError")
             ELSE IF isLast(a, p1) /\ ~isLast(b, p2) THEN Step(i2, 0, 1, "")
             ELSE IF isLast(b, p2) /\ ~isLast(a, p1) THEN Step(i1, 1, 0, "")
             ELSE Step(None, 0, 0, "")
        ELSE IF i1 < i2 THEN Step(i1, 1, 0, "")
        ELSE IF i2 < i1 THEN Step(i2, 0, 1, "")
        ELSE Step(i1, 1, 1, "")

\* the inner loop of set_diff: a fresh cursor over b advances until it
\* peeks i1 or runs out
RECURSIVE scan(_, _, _)
scan(b, p2, i1) ==
    IF ~hasNext(b, p2) THEN FALSE
    ELSE IF peek(b, p2) = i1 THEN TRUE
    ELSE scan(b, p2 + 1, i1)

diff_step_keepmatched(a, b, p1) ==
    LET i1 == peek(a, p1)
        flag == scan(b, 0, i1)
    IN  Step(IF flag THEN i1 ELSE None, 1, 0, "")

diff_step(a, b, p1) ==
    LET i1 == peek(a, p1)
        flag == scan(b, 0, i1)
    IN  Step(IF ~flag THEN i1 ELSE None, 1, 0, "")

\* result.append(x) on the fresh tree
append(T, x) == add_outcome(T, FALSE, x).tree

LoopCondition(m) ==
    CASE m.fn = "set_intersection" -> hasNext(m.a, m.p1) /\ hasNext(m.b, m.p2)
      [] m.fn = "set_union"        -> hasNext(m.a, m.p1) \/ hasNext(m.b, m.p2)
      [] m.fn = "set_diff"         -> hasNext(m.a, m.p1)

Pass(fn, s) ==
    /\ merge.fn = fn
    /\ merge.pc = "loop"
    /\ LoopCondition(merge)
    /\ merge' = [merge EXCEPT !.p1 = @ + s.d1, !.p2 = @ + s.d2,
                              !.pc = IF s.err = "" THEN "loop" ELSE s.err]
    /\ LET T == IF s.emit = None THEN ThisTree ELSE append(ThisTree, s.emit)
       IN  /\ root' = T.root
           /\ size' = T.size
           /\ nodes' = T.nodes
    /\ UNCHANGED <<self_balancing, itVars, opVars>>

set_intersection_pass ==
    Pass("set_intersection",
         intersection_step(peek(merge.a, merge.p1), peek(merge.b, merge.p2)))

set_union_pass ==
    Pass("set_union",
         union_step(merge.adapter, merge.a, merge.b, merge.p1, merge.p2))

set_diff_pass ==
    Pass("set_diff", diff_step(merge.a, merge.b, merge.p1))

set_return ==
    /\ merge.fn \in SetFunctions
    /\ merge.pc = "loop"
    /\ ~LoopCondition(merge)
    /\ merge' = [merge EXCEPT !.pc = "returned"]
    /\ UNCHANGED <<treeVars, itVars, opVars>>

InitSets ==
    /\ self_balancing = FALSE
    /\ EmptyTree(Elems)
    /\ merge \in [fn : SetFunctions, adapter : Adapters, a : Inputs,
                  b : Inputs, p1 : {0}, p2 : {0}, pc : {"loop"}]

NextSets ==
    \/ set_intersection_pass
    \/ set_union_pass
    \/ set_diff_pass
    \/ set_return

SpecSets == InitSets /\ [][NextSets]_vars

\* C11: when set_intersection(A, B) has ended, it has returned, and the
\* result holds exactly the keys present in both A and B, each once.
C11_Intersection ==
    (merge.fn = "set_intersection" /\ merge.pc # "loop") =>
        /\ merge.pc = "returned"
        /\ TreeKeys = Elements(merge.a) \cap Elements(merge.b)
        /\ size = Cardinality(TreeKeys)
        /\ Ordered(nodes, root)

\* a returned intersection of two different inputs with a common key and
\* keys of their own
C11_Witness ==
    /\ merge.fn = "set_intersection"
    /\ merge.pc = "returned"
    /\ size >= 2
    /\ Elements(merge.a) \ Elements(merge.b) # {}
    /\ Elements(merge.b) \ Elements(merge.a) # {}

\* an intersection with an empty argument
C11_WitnessEmpty ==
    /\ merge.fn = "set_intersection"
    /\ merge.pc = "returned"
    /\ merge.a = <<>>
    /\ Len(merge.b) >= 2

\* C12: when set_union(A, B) has ended, it has returned, and the result
\* holds exactly the keys present in A or in B, each once.
C12_Union ==
    (merge.fn = "set_union" /\ merge.pc # "loop") =>
        /\ merge.pc = "returned"
        /\ TreeKeys = Elements(merge.a) \cup Elements(merge.b)
        /\ size = Cardinality(TreeKeys)
        /\ Ordered(nodes, root)

\* C12 where peekable(it) is the peekable class
C12_UnionWithPeekable ==
    merge.adapter = "peekable" => C12_Union

\* a returned union whose first argument ran out while the second still had
\* two elements
C12_WitnessPeekable ==
    /\ merge.fn = "set_union"
    /\ merge.adapter = "peekable"
    /\ merge.pc = "returned"
    /\ merge.a # <<>>
    /\ \E k \in Elements(merge.b) :
          \A x \in Elements(merge.a) : x < k /\ x < k - 1 /\ (k - 1) \in Elements(merge.b)

\* C13: when set_diff(A, B) has ended, it has returned, and the result
\* holds exactly the keys of A that do not occur in B, each once; with an
\* empty B these are the keys of A.
C13_Difference ==
    (merge.fn = "set_diff" /\ merge.pc # "loop") =>
        /\ merge.pc = "returned"
        /\ TreeKeys = Elements(merge.a) \ Elements(merge.b)
        /\ size = Cardinality(TreeKeys)
        /\ Ordered(nodes, root)
        /\ merge.b = <<>> => TreeKeys = Elements(merge.a)

\* a returned difference that dropped a key and kept two
C13_Witness ==
    /\ merge.fn = "set_diff"
    /\ merge.pc = "returned"
    /\ size >= 2
    /\ Elements(merge.a) \cap Elements(merge.b) # {}
    /\ Elements(merge.b) \ Elements(merge.a) # {}

\* a returned difference with an empty second argument
C13_WitnessEmpty ==
    /\ merge.fn = "set_diff"
    /\ merge.pc = "returned"
    /\ merge.b = <<>>
    /\ size >= 2

\* C18: every pass of set_union's loop advances at least one of the two
\* cursors, so the call reaches its return.
C18_UnionPassAdvances ==
    [][(merge.fn = "set_union" /\ merge.pc = "loop" /\ LoopCondition(merge)) =>
        (merge'.p1 > merge.p1 \/ merge'.p2 > merge.p2)]_vars

\* C18 where peekable(it) is the peekable class
C18_UnionPassAdvancesWithPeekable ==
    [][(merge.fn = "set_union" /\ merge.adapter = "peekable"
            /\ merge.pc = "loop" /\ LoopCondition(merge)) =>
        (merge'.p1 > merge.p1 \/ merge'.p2 > merge.p2)]_vars

\* the largest e with 2^e <= n, for n >= 1
RECURSIVE FloorLog2(_)
FloorLog2(n) == IF n <= 1 THEN 0 ELSE 1 + FloorLog2(n \div 2)

\* C14: after 1..n are added in ascending order, the height of the
\* self-balancing tree is at most 2 * floor(log2(n)), and the height of the
\* non-self-balancing tree is n - 1.
C14_AscendingHeight ==
    (size >= 1 /\ TreeKeys = 1..size) =>
        IF self_balancing
        THEN height <= 2 * FloorLog2(size)
        ELSE height = size - 1

\* a self-balancing tree of 30 or more keys whose last add rebuilt a subtree
C14_Witness ==
    /\ self_balancing
    /\ TreeKeys = 1..size
    /\ size >= 30
    /\ lastOp = "add"
    /\ rebuilt

TwoChildren(N, n) == n # None /\ N[n].left # None /\ N[n].right # None

\* the node whose removal the step from this state carries out, None when
\* the step removes nothing
RemoveTarget ==
    IF lastOp' = "remove" THEN findEntry(ThisTree, arg')
    ELSE IF lastOp' = "iterator.remove" /\ result' # "IndexError" THEN pending
    ELSE None

\* C15: a removal of a node n with two children decreases len() by 1 and
\* keeps the search-tree order; the node object that leaves the tree is the
\* leftmost node s of n's right subtree, and n stays in the tree holding the
\* key s held.
C15_TwoChildrenRemoval ==
    [][TwoChildren(nodes, RemoveTarget) =>
        LET n == RemoveTarget
            s == getSmallestValue(nodes, nodes[n].right)
        IN  /\ size' = size - 1
            /\ Ordered(nodes', root')
            /\ Reach(nodes', root') = TreeNodes \ {s}
            /\ n \in Reach(nodes', root')
            /\ nodes'[n].data = nodes[s].data
            /\ KeysOf(nodes', root') = TreeKeys \ {nodes[n].data}]_vars

\* the state a two-children remove(arg) leaves: the node first made for key
\* arg is in the tree with its successor's key, and the successor's node is
\* gone
C15_Witness ==
    /\ lastOp = "remove"
    /\ result = "True"
    /\ size >= 2
    /\ arg \in TreeNodes
    /\ nodes[arg].data > arg
    /\ nodes[nodes[arg].data] = BlankNode

\* C16: in self-balancing mode the upward search of remove starts at the
\* original parent of the node that is unlinked (the successor, when the
\* key's node has two children).
C16_SearchStartsAtUnlinkedParent ==
    [][(self_balancing /\ lastOp' = "remove" /\ RemoveTarget # None) =>
        remove_search_start(ThisTree, RemoveTarget)
            = nodes[unlinked(nodes, RemoveTarget)].parent]_vars

\* C16 for the removals of a node with at most one child
C16_SearchStartOneChild ==
    [][(self_balancing /\ lastOp' = "remove" /\ RemoveTarget # None
            /\ ~TwoChildren(nodes, RemoveTarget)) =>
        remove_search_start(ThisTree, RemoveTarget)
            = nodes[unlinked(nodes, RemoveTarget)].parent]_vars

\* C17: after every iterator remove() that removed a node, the call has
\* returned, every counter is 1 + its children's counters and size is the
\* root's counter.
C17_IteratorRemoveRecounts ==
    (lastOp = "iterator.remove" /\ result # "IndexError") =>
        /\ result = "None"
        /\ CounterConsistent
        /\ size = Counter(nodes, root)

\* the root, after the step, of the subtree that rebalance(bstNode) rebuilt
RebuiltRoot(bstNode) ==
    CHOOSE r \in Reach(nodes, bstNode) : nodes'[r].parent = nodes[bstNode].parent

\* C19: rebalance(node) keeps the node objects of the tree and the key of
\* each; the rebuilt subtree holds the same nodes and its root takes node's
\* place under node's parent, or as the tree root; no other link of a node
\* outside the subtree changes.
C19_RebalanceFrame ==
    [][(lastOp' = "rebalance" /\ arg' # None) =>
        LET bstNode == arg'
            p == nodes[bstNode].parent
            sub == Reach(nodes, bstNode)
            r == RebuiltRoot(bstNode)
        IN  /\ Reach(nodes', root') = TreeNodes
            /\ \A n \in TreeNodes : nodes'[n].data = nodes[n].data
            /\ \E x \in sub : nodes'[x].parent = p
            /\ Reach(nodes', r) = sub
            /\ IF p = None
               THEN root' = r
               ELSE /\ root' = root
                    /\ IF nodes[p].left = bstNode
                       THEN nodes'[p].left = r /\ nodes'[p].right = nodes[p].right
                       ELSE nodes'[p].right = r /\ nodes'[p].left = nodes[p].left
            /\ \A n \in TreeNodes \ sub :
                  /\ nodes'[n].parent = nodes[n].parent
                  /\ n # p => /\ nodes'[n].left = nodes[n].left
                              /\ nodes'[n].right = nodes[n].right]_vars

\* the state after rebalance(arg) on a proper subtree: the tree as a whole
\* is not of minimum height, and arg sits under a non-root node with two
\* children
C19_Witness ==
    /\ lastOp = "rebalance"
    /\ arg \in TreeNodes
    /\ size >= 5
    /\ height > FloorLog2(size)
    /\ \E n \in TreeNodes \ {root} :
          /\ TwoChildren(nodes, n)
          /\ arg \in Reach(nodes, n)
          /\ nodes[n].parent # None
          /\ nodes[nodes[n].parent].right = n

\* C20: the subtree rebalance(node) builds from k nodes has height
\* floor(log2(k)), and each of its nodes, whose subtree of m nodes fills an
\* index range [start, end], sits at mid = ceil(start + (end - start) / 2):
\* m \div 2 nodes are to its left.
C20_RebalanceMinimumHeight ==
    [][(lastOp' = "rebalance" /\ arg' # None) =>
        LET sub == Reach(nodes, arg')
            r == RebuiltRoot(arg')
        IN  /\ getHeight(nodes', r) = FloorLog2(Cardinality(sub))
            /\ \A x \in sub :
                  Cardinality(Reach(nodes', nodes'[x].left))
                      = Cardinality(Reach(nodes', x)) \div 2]_vars

\* the state after rebalance(arg) moved arg away from the root of a tree of
\* 6 or more nodes
C20_Witness ==
    /\ lastOp = "rebalance"
    /\ arg \in TreeNodes
    /\ rebuilt
    /\ size >= 6
    /\ arg # root
    /\ height = FloorLog2(size)

\* the nodes a search for key visits from cur down, the last visited first
RECURSIVE SearchPath(_, _, _)
SearchPath(N, cur, key) ==
    IF cur = None THEN <<>>
    ELSE IF key < N[cur].data THEN SearchPath(N, N[cur].left, key) \o <<cur>>
    ELSE IF key > N[cur].data THEN SearchPath(N, N[cur].right, key) \o <<cur>>
    ELSE <<cur>>

\* the number of nodes under child slot c of x once a leaf for key hangs
\* below the first node of path
WeightWithLeaf(N, path, x, c, isLeft, key) ==
    IF c = None
    THEN IF x = path[1] /\ (isLeft <=> key < N[x].data) THEN 1 ELSE 0
    ELSE Cardinality(Reach(N, c))
            + (IF \E i \in DOMAIN path : path[i] = c THEN 1 ELSE 0)

\* x has a child that is too heavy for it once the leaf for key is added
ViolatesWithLeaf(N, path, x, key) ==
    LET w == Cardinality(Reach(N, x)) + 1
        l == WeightWithLeaf(N, path, x, N[x].left, TRUE, key)
        r == WeightWithLeaf(N, path, x, N[x].right, FALSE, key)
    IN  l * bottom > w * top \/ r * bottom > w * top

\* the nearest ancestor of the leaf for key that violates the weight
\* balance, None when there is none
NearestViolating(N, rt, key) ==
    LET path == SearchPath(N, rt, key)
        bad == {i \in DOMAIN path : ViolatesWithLeaf(N, path, path[i], key)}
    IN  IF bad = {} THEN None
        ELSE path[CHOOSE i \in bad : \A j \in bad : i <= j]

\* n keeps its parent, left and right links in the step
KeepsLinks(n) ==
    /\ nodes'[n].parent = nodes[n].parent
    /\ nodes'[n].left = nodes[n].left
    /\ nodes'[n].right = nodes[n].right

\* C21: an add of a new key to a non-empty tree, in self-balancing mode
\* with a violating ancestor of the new leaf, rebuilds the subtree of the
\* nearest such ancestor u, the leaf included, and changes no link outside
\* it but the slot of u's parent that holds it; otherwise it hangs the leaf
\* in the empty slot of its parent and changes no other link.
C21_AddRestructuresNearest ==
    [][(lastOp' = "add" /\ root # None /\ arg' \notin TreeKeys) =>
        LET key == arg'
            path == SearchPath(nodes, root, key)
            at == path[1]
            u == NearestViolating(nodes, root, key)
            new == CHOOSE n \in Reach(nodes', root') : n \notin TreeNodes
        IN  IF self_balancing /\ u # None
            THEN LET sub == Reach(nodes, u) \cup {new}
                     p == nodes[u].parent
                     r == CHOOSE x \in sub : nodes'[x].parent = p
                 IN  /\ rebuilt'
                     /\ \E x \in sub : nodes'[x].parent = p
                     /\ Reach(nodes', r) = sub
                     /\ \A x \in sub :
                           Cardinality(Reach(nodes', nodes'[x].left))
                               = Cardinality(Reach(nodes', x)) \div 2
                     /\ IF p = None THEN root' = r
                        ELSE /\ root' = root
                             /\ nodes'[p].parent = nodes[p].parent
                             /\ IF nodes[p].left = u
                                THEN nodes'[p].left = r /\ nodes'[p].right = nodes[p].right
                                ELSE nodes'[p].right = r /\ nodes'[p].left = nodes[p].left
                     /\ \A n \in TreeNodes \ (sub \cup {p}) : KeepsLinks(n)
            ELSE /\ ~rebuilt'
                 /\ root' = root
                 /\ nodes'[new] = [Node(key, at) EXCEPT !.counter = 1]
                 /\ \A n \in TreeNodes \ {at} : KeepsLinks(n)
                 /\ nodes'[at].parent = nodes[at].parent
                 /\ IF key < nodes[at].data
                    THEN /\ nodes[at].left = None
                         /\ nodes'[at].left = new
                         /\ nodes'[at].right = nodes[at].right
                    ELSE /\ nodes[at].right = None
                         /\ nodes'[at].right = new
                         /\ nodes'[at].left = nodes[at].left]_vars

\* a self-balancing tree in which the leaf for an absent key would have two
\* violating ancestors
C21_TwoViolating ==
    /\ self_balancing
    /\ \E key \in KeysMix \ TreeKeys :
          LET path == SearchPath(nodes, root, key)
          IN  Cardinality({i \in DOMAIN path :
                  ViolatesWithLeaf(nodes, path, path[i], key)}) >= 2

\* the state after an add to a self-balancing tree rebuilt a proper
\* subtree: the tree as a whole is not of minimum height
C21_Witness ==
    /\ self_balancing
    /\ lastOp = "add"
    /\ result = "True"
    /\ rebuilt
    /\ size >= 5
    /\ height > FloorLog2(size)

\* the state after an add to a self-balancing tree of 4 or more nodes
\* rebuilt nothing
C21_WitnessNoRebuild ==
    /\ self_balancing
    /\ lastOp = "add"
    /\ result = "True"
    /\ ~rebuilt
    /\ size >= 5

\* parent links agree with child links: the root has no parent, every other
\* node is the left or right child of its parent, a node's children name it
\* as their parent, and the in-order walk meets no node twice
ParentLinksAgree ==
    /\ root # None => nodes[root].parent = None
    /\ \A n \in TreeNodes :
          /\ nodes[n].left # None => nodes[nodes[n].left].parent = n
          /\ nodes[n].right # None => nodes[nodes[n].right].parent = n
          /\ nodes[n].left # None => nodes[n].left # nodes[n].right
          /\ n # root =>
                /\ nodes[n].parent \in TreeNodes
                /\ nodes[nodes[n].parent].left = n \/ nodes[nodes[n].parent].right = n
    /\ Len(inOrder(nodes, root)) = Cardinality(TreeNodes)

\* C22: after every add, remove, iterator remove or rebalance, whether it
\* returned or raised, parent links agree with child links.
C22_ParentLinksAgree ==
    lastOp \in {"add", "remove", "iterator.remove", "rebalance"} => ParentLinksAgree

\* the state after iterator remove() calls unlinked the smallest keys of a
\* tree and left a root with no left child
C22_Witness ==
    /\ lastOp = "iterator.remove"
    /\ result # "IndexError"
    /\ size >= 2
    /\ root \notin {None, 1}
    /\ removed # {}
    /\ \A k \in removed : k < nodes[root].data
    /\ nodes[root].left = None

====
